---- MODULE Spec2Model ----
(***************************************************************************)
(* The tarot spread wizard of luna-tarot-tma: the SpreadsScreen draft      *)
(* (tma_frontend/src/screens/SpreadsScreen.jsx), the card picker           *)
(* TarotCarouselPicker (tma_frontend/src/TarotCarousel.jsx) and the        *)
(* creation request of App (tma_frontend/src/App.jsx, api/client.js).      *)
(*                                                                         *)
(* One action is one event the running page can receive: a click or an    *)
(* input on a control that is rendered and not disabled, or the           *)
(* resolution of one awaited network call.  A handler runs to completion  *)
(* together with the re-render and the effects it triggers.  The spreads  *)
(* tab stays the active tab (navigation is outside the wizard).           *)
(***************************************************************************)
EXTENDS Integers, Sequences, FiniteSets, TLC

(* ------------------------------ bounds -------------------------------- *)

\* Largest catalogue; catalogues of every size 1..MaxDeck are explored.
MaxDeck == 3

\* Creation requests issued in one run (handleSubmit is disabled afterwards).
MaxSubmits == 3

\* Cursors -MaxCursor..MaxCursor are resolved against every catalogue length.
MaxCursor == 6

\* Settle timers of the roulette that may be pending at once.
MaxTimers == 2

(* ------------------------- values and constants ----------------------- *)

\* JavaScript null for string-valued state (category, error).
Null == "NULL"

\* JavaScript null for a question of a payload (texts are sequences).
NullText == <<"NULL">>

\* currentSpread === null; a detail is named by its id, the details the
\* server returned being numbered 1, 2, ... in the order they arrived.
NoSpread == 0

\* The values of THREE_SPREAD_CATEGORIES offered as chips (two of the six).
THREE_SPREAD_CATEGORIES == {"general", "love"}

\* Texts typed into the textarea: empty, blank, a padded question.
QuestionTexts == { <<>>, <<" ">>, <<" ", "q", " ">> }

\* The messages of setError, by what they say.
MsgEmptyQuestion == "please word your question"

MsgNoCategory == "please choose a category"

MsgNotEnough == "pick all the cards first"

MsgSubmitFailed == "could not make the spread, try again"

MsgCreateFailed == "could not create the spread"

\* Catalogues: card codes 1..n in order, and one catalogue of MaxDeck cards
\* whose last entry repeats the code of the first.
UniqueDeck(n) == [i \in 1..n |-> i]

DuplicateDeck == [i \in 1..MaxDeck |-> IF i = MaxDeck THEN 1 ELSE i]

Catalogues == { UniqueDeck(n) : n \in 1..MaxDeck } \cup { DuplicateDeck }

(* ------------------------------ state --------------------------------- *)

VARIABLES
  deck,               \* FULL_TAROT_DECK: the codes of the catalogue, in order
  spreadType,         \* SpreadsScreen state
  category,
  customQuestion,
  useCustomQuestion,
  pickedCards,        \* catalogue indices (0-based) of the picked cards
  isSubmitting,
  error,
  currentIndex,       \* TarotCarouselPicker state
  usedIndices,
  currentSpread,      \* App state
  appError,
  loading,
  spreads,
  calls,              \* the handleSubmit/handleCreateSpread calls and where each awaits
  nextCall,
  sent,               \* the payload this step handed to apiPost, if any
  typeCalls,          \* history: arguments of the handleChangeSpreadType calls
                      \* made back to back (at most the last two)
  pickOutcome,        \* history: how TarotCarouselPicker.handlePick returned
                      \* in this step: "card", "exhausted", or "none" (no pick)
  pickedCount,        \* the roulette revision: SpreadsScreen state
  isSpinning,         \* the roulette revision: TarotCarousel state
  isLocked,
  isFlipped,
  timers,             \* the pending setTimeout callbacks of handlePick, each
                      \* with the props of the render that created it
  rouletteStep,       \* history: what the roulette did in this step: "pick",
                      \* "ignored" (a click while locked), "settle" or "none"
  called,             \* history: the function of SpreadsScreen that was called
                      \* on its own in this step, "none" in the steps of the page
  response,           \* api/client.js: what fetch gave for the request under way
  result,             \* api/client.js: what apiRequest returned for it
  direction,          \* swipe carousel: 1 to the right, -1 to the left
  dragStartX,         \* swipe carousel: <<clientX>> where the drag began,
                      \* <<>> for null
  dragDeltaX,         \* swipe carousel: how far the drag has moved
  spinTimer,          \* swipe carousel: the pending timeout of spinStep (the
                      \* step it will run and the dir of its spin), <<>> for
                      \* none
  flipState,          \* swipe carousel: "idle" | "flipping"
  flipTimers,         \* swipe carousel: pending timeouts of handleChoose
  visible             \* autospin wheel: the indices last computed for display

draftVars == <<spreadType, category, customQuestion, useCustomQuestion,
               pickedCards, isSubmitting, error>>

pickerVars == <<currentIndex, usedIndices>>

appVars == <<currentSpread, appError, loading, spreads>>

rouletteVars == <<pickedCount, isSpinning, isLocked, isFlipped, timers>>

apiVars == <<response, result>>

swipeVars ==
  <<direction, dragStartX, dragDeltaX, spinTimer, flipState, flipTimers>>

vars == <<deck, spreadType, category, customQuestion, useCustomQuestion,
          pickedCards, isSubmitting, error, currentIndex, usedIndices,
          currentSpread, appError, loading, spreads, calls, nextCall, sent,
          typeCalls, pickOutcome, pickedCount, isSpinning, isLocked,
          isFlipped, timers, rouletteStep, called, response, result,
          direction, dragStartX, dragDeltaX, spinTimer, flipState, flipTimers,
          visible>>

(* --------------------------- pure functions --------------------------- *)

\* JavaScript a % n: the remainder takes the sign of the dividend.
JsMod(a, n) == IF a >= 0 THEN a % n ELSE 0 - ((0 - a) % n)

\* Variant of SafeIndex without the wrap of negative remainders: i % n.
SafeIndexNoWrap(i, n) == JsMod(i, n)

\* ((i % n) + n) % n
SafeIndex(i, n) == JsMod(JsMod(i, n) + n, n)

\* clampIndex of the spinning carousel: mod < 0 ? mod + cardsCount : mod
clampIndex(index, n) ==
  LET mod == JsMod(index, n) IN IF mod < 0 THEN mod + n ELSE mod

\* String.prototype.trim over a sequence of characters.
RECURSIVE TrimLeft(_)
TrimLeft(s) == IF s # <<>> /\ Head(s) = " " THEN TrimLeft(Tail(s)) ELSE s

RECURSIVE TrimRight(_)
TrimRight(s) ==
  IF s # <<>> /\ s[Len(s)] = " " THEN TrimRight(SubSeq(s, 1, Len(s) - 1)) ELSE s

\* Variant of Trim that removes the leading whitespace only.
TrimLeftOnly(s) == TrimLeft(s)

Trim(s) == TrimRight(TrimLeft(s))

MaxCards(type) == IF type = "one" THEN 1 ELSE 3

CardsCount == Len(deck)

CodeOf(i) == deck[i + 1]

\* Variant of CodesOf that lists the codes last pick first.
RECURSIVE CodesOfReversed(_)
CodesOfReversed(cards) ==
  IF cards = <<>> THEN <<>>
  ELSE CodesOfReversed(Tail(cards)) \o <<CodeOf(Head(cards))>>

\* pickedCards.map((c) => c.code)
RECURSIVE CodesOf(_)
CodesOf(cards) ==
  IF cards = <<>> THEN <<>> ELSE <<CodeOf(Head(cards))>> \o CodesOf(Tail(cards))

\* Variant of IsDone with the comparison off by one (count > total).
IsDoneLate(type, cards) == Len(cards) > MaxCards(type)

\* TarotCarouselPicker renders nothing once count >= total.
IsDone(type, cards) == Len(cards) >= MaxCards(type)

PickerShown == currentSpread = NoSpread /\ ~IsDone(spreadType, pickedCards)

FormShown == currentSpread = NoSpread

CallIds == 1..MaxSubmits

NoPayload == [mode |-> "none", spread_type |-> Null, category |-> Null,
              question |-> NullText, cards |-> <<>>]

NoCall == [pc |-> "idle", stale |-> FALSE]

\* No request is under way; apiRequest has returned nothing.
NoResponse == [net |-> "none", status |-> 0, body |-> "none",
               ok |-> FALSE, data |-> "undefined", error |-> "undefined"]

NoResult == [returned |-> FALSE, ok |-> FALSE, data |-> "undefined",
             error |-> "undefined"]

(* ------------------------------ Init ---------------------------------- *)

Init ==
  /\ deck \in Catalogues
  /\ spreadType = "one"
  /\ category = "general"
  /\ customQuestion = <<>>
  /\ useCustomQuestion = FALSE
  /\ pickedCards = <<>>
  /\ isSubmitting = FALSE
  /\ error = Null
  /\ currentIndex = 0
  /\ usedIndices = {}
  /\ currentSpread = NoSpread
  /\ appError = Null
  /\ loading = FALSE
  /\ spreads = <<>>
  /\ calls = [k \in CallIds |-> NoCall]
  /\ nextCall = 1
  /\ sent = NoPayload
  /\ typeCalls = <<>>
  /\ pickOutcome = "none"
  /\ pickedCount = 0
  /\ isSpinning = TRUE
  /\ isLocked = FALSE
  /\ isFlipped = FALSE
  /\ timers = <<>>
  /\ rouletteStep = "none"
  /\ called = "none"
  /\ response = NoResponse
  /\ result = NoResult
  /\ direction = 1
  /\ dragStartX = <<>>
  /\ dragDeltaX = 0
  /\ spinTimer = <<>>
  /\ flipState = "idle"
  /\ flipTimers = 0
  /\ visible = <<>>

(* ----------------------- SpreadsScreen: the draft --------------------- *)

\* Variant of PickedAfterTypeChange without the clearing effect.
PickedKept(prevType, nextType, cards) == cards

\* useEffect([spreadType]): the picked cards are cleared when the value of
\* spreadType changes.
PickedAfterTypeChange(prevType, nextType, cards) ==
  IF nextType # prevType THEN <<>> ELSE cards

\* Whether TarotCarouselPicker renders with isDone while the type changes.
HiddenDuringTypeChange(prevType, nextType, cards) ==
  /\ nextType # prevType
  /\ IsDone(prevType, cards) \/ IsDone(nextType, cards)

\* Variant of PickerAfter in which the picker keeps its state over a render
\* with isDone.
PickerKept(hidden, cur, used) == <<cur, used>>

\* The state of the picker after a render.  A render with isDone returns
\* before the hooks are called; a function component that calls no hook loses
\* its hook state, and the next render mounts the hooks anew (useState(0),
\* useState([])).
PickerAfter(hidden, cur, used) ==
  IF hidden THEN <<0, {}>> ELSE <<cur, used>>

SetPicker(hidden, cur, used) ==
  /\ currentIndex' = PickerAfter(hidden, cur, used)[1]
  /\ usedIndices' = PickerAfter(hidden, cur, used)[2]

LastTwo(s) == IF Len(s) > 2 THEN SubSeq(s, Len(s) - 1, Len(s)) ELSE s

handleChangeSpreadType(nextType) ==
  /\ FormShown
  /\ ~isSubmitting
  /\ spreadType' = nextType
  /\ error' = Null
  /\ category' = IF nextType = "one" THEN "daily" ELSE "general"
  /\ customQuestion' = <<>>
  /\ useCustomQuestion' = FALSE
  /\ pickedCards' = PickedAfterTypeChange(spreadType, nextType, pickedCards)
  /\ SetPicker(HiddenDuringTypeChange(spreadType, nextType, pickedCards),
               currentIndex, usedIndices)
  /\ sent' = NoPayload
  /\ typeCalls' = LastTwo(Append(typeCalls, nextType))
  /\ pickOutcome' = "none"
  /\ rouletteStep' = "none"
  /\ called' = "none"
  /\ UNCHANGED apiVars
  /\ UNCHANGED swipeVars
  /\ UNCHANGED visible
  /\ UNCHANGED rouletteVars
  /\ UNCHANGED <<deck, isSubmitting, appVars, calls, nextCall>>

\* The category after handleCategoryChange(nextCat).
CategoryAfterChange(useQ, cat, nextCat) == IF useQ THEN cat ELSE nextCat

\* Variant of QuestionAfterCategory that keeps the text of the question.
QuestionKeptOnCategory(useQ, text) == text

\* The question text after handleCategoryChange(nextCat).
QuestionAfterCategory(useQ, text) == IF useQ THEN text ELSE <<>>

handleCategoryChange(nextCat) ==
  /\ FormShown
  /\ spreadType = "three"
  /\ ~(isSubmitting \/ useCustomQuestion)
  /\ category' = CategoryAfterChange(useCustomQuestion, category, nextCat)
  /\ customQuestion' = QuestionAfterCategory(useCustomQuestion, customQuestion)
  /\ error' = IF useCustomQuestion THEN error ELSE Null
  /\ sent' = NoPayload
  /\ typeCalls' = <<>>
  /\ pickOutcome' = "none"
  /\ rouletteStep' = "none"
  /\ called' = "none"
  /\ UNCHANGED apiVars
  /\ UNCHANGED swipeVars
  /\ UNCHANGED visible
  /\ UNCHANGED rouletteVars
  /\ UNCHANGED <<deck, spreadType, useCustomQuestion, pickedCards, isSubmitting,
                 pickerVars, appVars, calls, nextCall>>

handleCustomQuestionChange(value) ==
  /\ FormShown
  /\ spreadType = "three"
  /\ useCustomQuestion
  /\ ~isSubmitting
  /\ customQuestion' = value
  /\ error' = Null
  /\ sent' = NoPayload
  /\ typeCalls' = <<>>
  /\ pickOutcome' = "none"
  /\ rouletteStep' = "none"
  /\ called' = "none"
  /\ UNCHANGED apiVars
  /\ UNCHANGED swipeVars
  /\ UNCHANGED visible
  /\ UNCHANGED rouletteVars
  /\ UNCHANGED <<deck, spreadType, category, useCustomQuestion, pickedCards,
                 isSubmitting, pickerVars, appVars, calls, nextCall>>

\* Variant of CategoryAfterToggle that leaves the category as it is when the
\* question is switched on.
CategoryKeptOnToggle(next, cat) == IF cat = Null THEN "general" ELSE cat

\* Variant of CategoryAfterToggle that restores no default category.
CategoryNotRestored(next, cat) == IF next THEN Null ELSE cat

\* The category after toggleUseCustomQuestion, next = !useCustomQuestion.
CategoryAfterToggle(next, cat) ==
  IF next THEN Null ELSE IF cat = Null THEN "general" ELSE cat

\* Variant of QuestionAfterToggle that keeps the text when the question is
\* switched off.
QuestionKeptOnToggle(next, text) == text

\* The question text after toggleUseCustomQuestion.
QuestionAfterToggle(next, text) == IF next THEN text ELSE <<>>

toggleUseCustomQuestion ==
  /\ FormShown
  /\ spreadType = "three"
  /\ ~isSubmitting
  /\ useCustomQuestion' = ~useCustomQuestion
  /\ error' = Null
  /\ category' = CategoryAfterToggle(~useCustomQuestion, category)
  /\ customQuestion' = QuestionAfterToggle(~useCustomQuestion, customQuestion)
  /\ sent' = NoPayload
  /\ typeCalls' = <<>>
  /\ pickOutcome' = "none"
  /\ rouletteStep' = "none"
  /\ called' = "none"
  /\ UNCHANGED apiVars
  /\ UNCHANGED swipeVars
  /\ UNCHANGED visible
  /\ UNCHANGED rouletteVars
  /\ UNCHANGED <<deck, spreadType, pickedCards, isSubmitting, pickerVars,
                 appVars, calls, nextCall>>

\* Variant of buildPayload that sends the effective category along with the
\* question of the user.
buildPayloadBoth(type, cat, text, useQ, cards) ==
  IF type = "one"
    THEN [mode |-> "interactive", spread_type |-> "one", category |-> Null,
          question |-> NullText, cards |-> CodesOf(cards)]
  ELSE [mode |-> "interactive", spread_type |-> "three",
        category |-> IF cat = Null THEN "general" ELSE cat,
        question |-> IF useQ THEN Trim(text) ELSE NullText,
        cards |-> CodesOf(cards)]

\* Variant of buildPayload that leaves the picked cards out.
buildPayloadNoCards(type, cat, text, useQ, cards) ==
  IF type = "one"
    THEN [mode |-> "interactive", spread_type |-> "one", category |-> Null,
          question |-> NullText, cards |-> <<>>]
  ELSE IF useQ
    THEN [mode |-> "interactive", spread_type |-> "three", category |-> Null,
          question |-> Trim(text), cards |-> <<>>]
  ELSE [mode |-> "interactive", spread_type |-> "three",
        category |-> IF cat = Null THEN "general" ELSE cat,
        question |-> NullText, cards |-> <<>>]

\* Variant of buildPayload that sends "daily" for a one-card spread.
buildPayloadDaily(type, cat, text, useQ, cards) ==
  IF type = "one"
    THEN [mode |-> "interactive", spread_type |-> "one", category |-> "daily",
          question |-> NullText, cards |-> CodesOf(cards)]
  ELSE IF useQ
    THEN [mode |-> "interactive", spread_type |-> "three", category |-> Null,
          question |-> Trim(text), cards |-> CodesOf(cards)]
  ELSE [mode |-> "interactive", spread_type |-> "three",
        category |-> IF cat = Null THEN "general" ELSE cat,
        question |-> NullText, cards |-> CodesOf(cards)]

\* buildPayload()
buildPayload(type, cat, text, useQ, cards) ==
  IF type = "one"
    THEN [mode |-> "interactive", spread_type |-> "one", category |-> Null,
          question |-> NullText, cards |-> CodesOf(cards)]
  ELSE IF useQ
    THEN [mode |-> "interactive", spread_type |-> "three", category |-> Null,
          question |-> Trim(text), cards |-> CodesOf(cards)]
  ELSE [mode |-> "interactive", spread_type |-> "three",
        category |-> IF cat = Null THEN "general" ELSE cat,
        question |-> NullText, cards |-> CodesOf(cards)]

\* Variant of SubmitOutcome without the check of the number of cards.
SubmitOutcomeNoCardCheck(type, cat, text, useQ, cards, submitting) ==
  IF submitting THEN "skipped"
  ELSE IF type = "three" /\ useQ /\ Trim(text) = <<>> THEN MsgEmptyQuestion
  ELSE IF type = "three" /\ ~useQ /\ cat = Null THEN MsgNoCategory
  ELSE "send"

\* Variant of SubmitOutcome without the validation of the category.
SubmitOutcomeNoCategoryCheck(type, cat, text, useQ, cards, submitting) ==
  IF submitting THEN "skipped"
  ELSE IF type = "three" /\ useQ /\ Trim(text) = <<>> THEN MsgEmptyQuestion
  ELSE IF Len(cards) < MaxCards(type) THEN MsgNotEnough
  ELSE "send"

\* Variant of SubmitOutcome without the validation of the question.
SubmitOutcomeNoQuestionCheck(type, cat, text, useQ, cards, submitting) ==
  IF submitting THEN "skipped"
  ELSE IF type = "three" /\ ~useQ /\ cat = Null THEN MsgNoCategory
  ELSE IF Len(cards) < MaxCards(type) THEN MsgNotEnough
  ELSE "send"

\* What handleSubmit does with the values of the render it was created in:
\* nothing ("skipped"), a validation message, or the request ("send").
SubmitOutcome(type, cat, text, useQ, cards, submitting) ==
  IF submitting THEN "skipped"
  ELSE IF type = "three" /\ useQ /\ Trim(text) = <<>> THEN MsgEmptyQuestion
  ELSE IF type = "three" /\ ~useQ /\ cat = Null THEN MsgNoCategory
  ELSE IF Len(cards) < MaxCards(type) THEN MsgNotEnough
  ELSE "send"

\* handleSubmit up to its await, with App.handleCreateSpread up to its await
\* of apiPost.  errBefore is the error set earlier in the same event.
RunHandleSubmit(errBefore) ==
  LET out == SubmitOutcome(spreadType, category, customQuestion,
                           useCustomQuestion, pickedCards, isSubmitting)
  IN  IF out = "skipped"
        THEN /\ error' = errBefore
             /\ sent' = NoPayload
             /\ UNCHANGED <<isSubmitting, appError, loading, calls, nextCall>>
      ELSE IF out # "send"
        THEN /\ error' = out
             /\ sent' = NoPayload
             /\ UNCHANGED <<isSubmitting, appError, loading, calls, nextCall>>
      ELSE /\ nextCall <= MaxSubmits
           /\ isSubmitting' = TRUE
           /\ error' = Null
           /\ loading' = TRUE
           /\ appError' = Null
           /\ sent' = buildPayload(spreadType, category, customQuestion,
                                    useCustomQuestion, pickedCards)
           /\ calls' = [calls EXCEPT ![nextCall] = [pc |-> "post", stale |-> FALSE]]
           /\ nextCall' = nextCall + 1

\* Variant of SubmitOffered that does not look at the number of cards.
SubmitOfferedNoCardCheck == FormShown /\ ~isSubmitting

\* The submit button of the form can be pressed:
\* disabled={isSubmitting || pickedCards.length < maxCards}.
SubmitOffered ==
  /\ FormShown
  /\ ~(isSubmitting \/ Len(pickedCards) < MaxCards(spreadType))

\* A click on the submit button (disabled while submitting or short of cards).
handleSubmit ==
  /\ SubmitOffered
  /\ RunHandleSubmit(error)
  /\ typeCalls' = <<>>
  /\ pickOutcome' = "none"
  /\ rouletteStep' = "none"
  /\ called' = "none"
  /\ UNCHANGED apiVars
  /\ UNCHANGED swipeVars
  /\ UNCHANGED visible
  /\ UNCHANGED rouletteVars
  /\ UNCHANGED <<deck, spreadType, category, customQuestion, useCustomQuestion,
                 pickedCards, pickerVars, currentSpread, spreads>>

InFlight(c) == c.pc \in {"post", "questions"}

\* handleNewSpread with App.handleResetCurrentSpread: the button of the
\* result view.
handleNewSpread ==
  /\ currentSpread # NoSpread
  /\ currentSpread' = NoSpread
  /\ error' = Null
  /\ isSubmitting' = FALSE
  /\ spreadType' = "one"
  /\ category' = "daily"
  /\ customQuestion' = <<>>
  /\ useCustomQuestion' = FALSE
  /\ pickedCards' = <<>>
  /\ currentIndex' = 0
  /\ usedIndices' = {}
  /\ calls' = [k \in CallIds |->
                 IF InFlight(calls[k]) THEN [calls[k] EXCEPT !.stale = TRUE]
                 ELSE calls[k]]
  /\ sent' = NoPayload
  /\ typeCalls' = <<>>
  /\ pickOutcome' = "none"
  /\ rouletteStep' = "none"
  /\ called' = "none"
  /\ UNCHANGED apiVars
  /\ UNCHANGED swipeVars
  /\ UNCHANGED visible
  /\ UNCHANGED rouletteVars
  /\ UNCHANGED <<deck, appError, loading, spreads, nextCall>>

(* ------------------------- TarotCarouselPicker ------------------------ *)

\* Raw indices a scroll position can round to (scrollLeft / cardStep): from
\* one step before the first card to one step past the last.
ScrollRange == (0 - 1)..MaxDeck

handleScroll(rawIndex) ==
  /\ PickerShown
  /\ currentIndex' = SafeIndex(rawIndex, CardsCount)
  /\ sent' = NoPayload
  /\ typeCalls' = <<>>
  /\ pickOutcome' = "none"
  /\ rouletteStep' = "none"
  /\ called' = "none"
  /\ UNCHANGED apiVars
  /\ UNCHANGED swipeVars
  /\ UNCHANGED visible
  /\ UNCHANGED rouletteVars
  /\ UNCHANGED <<deck, draftVars, usedIndices, appVars, calls, nextCall>>

handleCardClick(index) ==
  /\ PickerShown
  /\ currentIndex' = index
  /\ sent' = NoPayload
  /\ typeCalls' = <<>>
  /\ pickOutcome' = "none"
  /\ rouletteStep' = "none"
  /\ called' = "none"
  /\ UNCHANGED apiVars
  /\ UNCHANGED swipeVars
  /\ UNCHANGED visible
  /\ UNCHANGED rouletteVars
  /\ UNCHANGED <<deck, draftVars, usedIndices, appVars, calls, nextCall>>

Lowest(S) == CHOOSE i \in S : \A j \in S : i <= j

\* The first index not in used met from cur + 1 onwards, wrapping around.
NextUnusedAfter(cur, used, n) ==
  LET d == CHOOSE d \in 1..n :
             /\ ((cur + d) % n) \notin used
             /\ \A e \in 1..(d - 1) : ((cur + e) % n) \in used
  IN  (cur + d) % n

\* Variant of PickIndex whose fallback scans forward from the cursor.
PickIndexForward(cur, used, n) ==
  LET safeIndex == SafeIndex(cur, n)
      available == { i \in 0..(n - 1) : i \notin used }
  IN  IF safeIndex \notin used THEN safeIndex
      ELSE IF available = {} THEN 0 - 1
      ELSE NextUnusedAfter(safeIndex, used, n)

\* Variant of PickIndex that takes the card under the cursor, used or not.
PickIndexUnderCursor(cur, used, n) == SafeIndex(cur, n)

\* The index handlePick selects: the card under the cursor, or the first
\* index not yet used when that card was picked before; -1 when none is left.
PickIndex(cur, used, n) ==
  LET safeIndex == SafeIndex(cur, n)
      available == { i \in 0..(n - 1) : i \notin used }
  IN  IF safeIndex \notin used THEN safeIndex
      ELSE IF available = {} THEN 0 - 1
      ELSE Lowest(available)

\* SpreadsScreen.handlePick (onPick), run with the values of the render in
\* which the card was caught: pickedCards does not hold the new card yet.
OnPick ==
  IF Len(pickedCards) + 1 >= MaxCards(spreadType) /\ ~isSubmitting
    THEN RunHandleSubmit(Null)
    ELSE /\ error' = Null
         /\ sent' = NoPayload
         /\ UNCHANGED <<isSubmitting, appError, loading, calls, nextCall>>

\* The "catch the card" button: TarotCarouselPicker.handlePick, then
\* onPickCard (the card is appended) and onPick.
handlePick ==
  /\ PickerShown
  /\ LET safeIndex == PickIndex(currentIndex, usedIndices, CardsCount)
     IN  IF safeIndex < 0
           THEN /\ pickOutcome' = "exhausted"
                /\ sent' = NoPayload
                /\ UNCHANGED <<draftVars, pickerVars, appError, loading, calls,
                               nextCall>>
           ELSE /\ pickOutcome' = "card"
                /\ pickedCards' = Append(pickedCards, safeIndex)
                /\ SetPicker(IsDone(spreadType, Append(pickedCards, safeIndex)),
                             currentIndex, usedIndices \cup {safeIndex})
                /\ OnPick
                /\ UNCHANGED <<spreadType, category, customQuestion,
                               useCustomQuestion>>
  /\ typeCalls' = <<>>
  /\ UNCHANGED <<deck, currentSpread, spreads>>
  /\ rouletteStep' = "none"
  /\ called' = "none"
  /\ UNCHANGED apiVars
  /\ UNCHANGED swipeVars
  /\ UNCHANGED visible
  /\ UNCHANGED rouletteVars

(* ------------------- App.handleCreateSpread, resumed ------------------ *)

\* Variant of SpreadsAfterCreate that puts the new item last.
SpreadsAppended(prevItems, newItem) == prevItems \o <<newItem>>

\* setSpreads: [newItem, ...prevItems]
SpreadsAfterCreate(prevItems, newItem) == <<newItem>> \o prevItems

\* apiPost resolved with ok and data: the detail is stored and shown, the
\* form (and the picker in it) is unmounted, the questions are requested.
postSucceeds(k) ==
  /\ calls[k].pc = "post"
  /\ currentSpread' = Len(spreads) + 1
  /\ spreads' = SpreadsAfterCreate(spreads, Len(spreads) + 1)
  /\ currentIndex' = 0
  /\ usedIndices' = {}
  /\ calls' = [calls EXCEPT ![k].pc = "questions"]
  /\ sent' = NoPayload
  /\ typeCalls' = <<>>
  /\ pickOutcome' = "none"
  /\ rouletteStep' = "none"
  /\ called' = "none"
  /\ UNCHANGED apiVars
  /\ UNCHANGED swipeVars
  /\ UNCHANGED visible
  /\ UNCHANGED rouletteVars
  /\ UNCHANGED <<deck, draftVars, appError, loading, nextCall>>

\* apiPost resolved without ok or data: App sets its error, both finally
\* blocks run.
postFails(k) ==
  /\ calls[k].pc = "post"
  /\ appError' = MsgCreateFailed
  /\ loading' = FALSE
  /\ isSubmitting' = FALSE
  /\ calls' = [calls EXCEPT ![k].pc = "done"]
  /\ sent' = NoPayload
  /\ typeCalls' = <<>>
  /\ pickOutcome' = "none"
  /\ rouletteStep' = "none"
  /\ called' = "none"
  /\ UNCHANGED apiVars
  /\ UNCHANGED swipeVars
  /\ UNCHANGED visible
  /\ UNCHANGED rouletteVars
  /\ UNCHANGED <<deck, spreadType, category, customQuestion, useCustomQuestion,
                 pickedCards, error, pickerVars, currentSpread, spreads,
                 nextCall>>

\* The two awaited requests for the questions of the new spread resolved
\* (nothing the wizard reads changes between them): handleCreateSpread and
\* handleSubmit end with their finally blocks.
createSpreadEnds(k) ==
  /\ calls[k].pc = "questions"
  /\ loading' = FALSE
  /\ isSubmitting' = FALSE
  /\ calls' = [calls EXCEPT ![k].pc = "done"]
  /\ sent' = NoPayload
  /\ typeCalls' = <<>>
  /\ pickOutcome' = "none"
  /\ rouletteStep' = "none"
  /\ called' = "none"
  /\ UNCHANGED apiVars
  /\ UNCHANGED swipeVars
  /\ UNCHANGED visible
  /\ UNCHANGED rouletteVars
  /\ UNCHANGED <<deck, spreadType, category, customQuestion, useCustomQuestion,
                 pickedCards, error, pickerVars, currentSpread, appError,
                 spreads, nextCall>>

(* --------------------------- specification ---------------------------- *)

ChangeSpreadType == \E t \in {"one", "three"} : handleChangeSpreadType(t)

CategoryChange == \E c \in THREE_SPREAD_CATEGORIES : handleCategoryChange(c)

CustomQuestionChange == \E v \in QuestionTexts : handleCustomQuestionChange(v)

Scroll == \E r \in ScrollRange : handleScroll(r)

CardClick == \E i \in 0..(CardsCount - 1) : handleCardClick(i)

PostSucceeds == \E k \in CallIds : postSucceeds(k)

PostFails == \E k \in CallIds : postFails(k)

CreateSpreadEnds == \E k \in CallIds : createSpreadEnds(k)

Next ==
  \/ ChangeSpreadType
  \/ CategoryChange
  \/ CustomQuestionChange
  \/ toggleUseCustomQuestion
  \/ Scroll
  \/ CardClick
  \/ handlePick
  \/ handleSubmit
  \/ handleNewSpread
  \/ PostSucceeds
  \/ PostFails
  \/ CreateSpreadEnds

Spec == Init /\ [][Next]_vars

(* -------------------- the network may stay silent --------------------- *)

\* apiRequest awaits fetch(url, options) with no timeout and no abort
\* signal: a request the server never answers never settles, and neither
\* handleCreateSpread nor handleSubmit ever resumes.
postHangs(k) ==
  /\ calls[k].pc = "post"
  /\ calls' = [calls EXCEPT ![k].pc = "hung"]
  /\ sent' = NoPayload
  /\ typeCalls' = <<>>
  /\ pickOutcome' = "none"
  /\ rouletteStep' = "none"
  /\ called' = "none"
  /\ UNCHANGED apiVars
  /\ UNCHANGED swipeVars
  /\ UNCHANGED visible
  /\ UNCHANGED rouletteVars
  /\ UNCHANGED <<deck, draftVars, pickerVars, appVars, nextCall>>

PostHangs == \E k \in CallIds : postHangs(k)

LiveNext ==
  \/ Next
  \/ PostHangs

\* Every request meets its fate (answered with success, answered with a
\* failure, or never answered), and the requests for the questions are
\* answered; the user is free to do nothing.
LiveSpec ==
  /\ Init
  /\ [][LiveNext]_vars
  /\ WF_vars(PostSucceeds \/ PostFails \/ PostHangs)
  /\ WF_vars(CreateSpreadEnds)

(* ------ the roulette: TarotCarousel with a spin, a lock and a flip ----- *)

\* This revision of the wizard counts the caught cards (pickedCount) and its
\* picker is a roulette that stops, flips for half a second and reports
\* "one card caught" upward when the flip ends.

\* isDone: the roulette renders nothing once count >= total.
RouletteShown ==
  currentSpread = NoSpread /\ pickedCount < MaxCards(spreadType)

\* Variant of PickAccepted that does not look at the lock.
PickAcceptedAlways(locked) == TRUE

\* if (isLocked) return;  (onPick is always passed by SpreadsScreen)
PickAccepted(locked) == ~locked

\* The test of the setTimeout callback, on the props of the render in which
\* the pick was made: (pickedCount || 0) + 1 < (maxCards || 1).
ResumeAfter(count, max) == count + 1 < max

\* onPick of SpreadsScreen: Math.min(prev + 1, maxCards), maxCards being the
\* one of the render that created the callback.
CountAfterPick(prev, max) == IF prev + 1 < max THEN prev + 1 ELSE max

\* TarotCarousel.handlePick up to setTimeout: a click on the main card or
\* on the button (the button alone is disabled while locked).
rouletteHandlePick ==
  /\ RouletteShown
  /\ IF PickAccepted(isLocked)
       THEN /\ Len(timers) < MaxTimers
            /\ isLocked' = TRUE
            /\ isSpinning' = FALSE
            /\ isFlipped' = TRUE
            /\ timers' = Append(timers,
                                [pickedCount |-> pickedCount,
                                 maxCards |-> MaxCards(spreadType),
                                 stale |-> FALSE, detached |-> FALSE])
            /\ rouletteStep' = "pick"
       ELSE /\ rouletteStep' = "ignored"
            /\ UNCHANGED <<isLocked, isSpinning, isFlipped, timers>>
  /\ called' = "none"
  /\ UNCHANGED apiVars
  /\ UNCHANGED swipeVars
  /\ UNCHANGED visible
  /\ sent' = NoPayload
  /\ typeCalls' = <<>>
  /\ pickOutcome' = "none"
  /\ UNCHANGED <<deck, draftVars, pickerVars, appVars, calls, nextCall,
                 pickedCount>>

\* The setTimeout callback of handlePick runs: onPick() of the render that
\* created it, then the roulette resumes or stays stopped.  The state
\* setters it holds are those of the roulette that created it: they do
\* nothing once the form that held that roulette is unmounted.
rouletteSettle ==
  /\ timers # <<>>
  /\ LET t == Head(timers)
     IN  /\ pickedCount' = CountAfterPick(pickedCount, t.maxCards)
         /\ error' = Null
         /\ IF currentSpread = NoSpread /\ ~t.detached
              THEN /\ isFlipped' = FALSE
                   /\ IF ResumeAfter(t.pickedCount, t.maxCards)
                        THEN /\ isSpinning' = TRUE
                             /\ isLocked' = FALSE
                        ELSE UNCHANGED <<isSpinning, isLocked>>
              ELSE UNCHANGED <<isFlipped, isSpinning, isLocked>>
  /\ timers' = Tail(timers)
  /\ rouletteStep' = "settle"
  /\ called' = "none"
  /\ UNCHANGED apiVars
  /\ UNCHANGED swipeVars
  /\ UNCHANGED visible
  /\ sent' = NoPayload
  /\ typeCalls' = <<>>
  /\ pickOutcome' = "none"
  /\ UNCHANGED <<deck, spreadType, category, customQuestion, useCustomQuestion,
                 pickedCards, isSubmitting, pickerVars, appVars, calls,
                 nextCall>>

\* The pending timers, marked as made for a draft that is gone.
Outdated(ts) == [i \in 1..Len(ts) |-> [ts[i] EXCEPT !.stale = TRUE]]

\* The pending timers, marked as made for a draft that is gone by a roulette
\* that is unmounted.
Detached(ts) ==
  [i \in 1..Len(ts) |-> [ts[i] EXCEPT !.stale = TRUE, !.detached = TRUE]]

\* handleChangeSpreadType of this revision: it clears the count itself and
\* does not touch the roulette, whose state lives on in the mounted picker.
rouletteChangeSpreadType(nextType) ==
  /\ FormShown
  /\ ~isSubmitting
  /\ spreadType' = nextType
  /\ error' = Null
  /\ pickedCount' = 0
  /\ category' = IF nextType = "one" THEN "daily" ELSE "general"
  /\ customQuestion' = <<>>
  /\ useCustomQuestion' = FALSE
  /\ timers' = Outdated(timers)
  /\ rouletteStep' = "none"
  /\ called' = "none"
  /\ UNCHANGED apiVars
  /\ UNCHANGED swipeVars
  /\ UNCHANGED visible
  /\ sent' = NoPayload
  /\ typeCalls' = LastTwo(Append(typeCalls, nextType))
  /\ pickOutcome' = "none"
  /\ UNCHANGED <<deck, pickedCards, isSubmitting, pickerVars, appVars, calls,
                 nextCall, isSpinning, isLocked, isFlipped>>

\* buildPayload() of this revision: the server draws the cards.
rouletteBuildPayload(type, cat, text, useQ) ==
  IF type = "one"
    THEN [mode |-> "auto", spread_type |-> "one", category |-> "daily",
          question |-> NullText, cards |-> <<>>]
  ELSE IF useQ
    THEN [mode |-> "auto", spread_type |-> "three", category |-> Null,
          question |-> Trim(text), cards |-> <<>>]
  ELSE [mode |-> "auto", spread_type |-> "three",
        category |-> IF cat = Null THEN "general" ELSE cat,
        question |-> NullText, cards |-> <<>>]

\* What handleSubmit of this revision does: nothing, a message, the request.
RouletteSubmitOutcome(type, cat, text, useQ, count, submitting) ==
  IF submitting THEN "skipped"
  ELSE IF type = "three" /\ useQ /\ Trim(text) = <<>> THEN MsgEmptyQuestion
  ELSE IF type = "three" /\ ~useQ /\ cat = Null THEN MsgNoCategory
  ELSE IF count < MaxCards(type) THEN MsgNotEnough
  ELSE "send"

\* A click on the submit button (disabled while submitting or short of
\* cards): handleSubmit up to its await, with App.handleCreateSpread up to
\* its await of apiPost.
rouletteHandleSubmit ==
  /\ FormShown
  /\ ~(isSubmitting \/ pickedCount < MaxCards(spreadType))
  /\ LET out == RouletteSubmitOutcome(spreadType, category, customQuestion,
                                      useCustomQuestion, pickedCount,
                                      isSubmitting)
     IN  IF out # "send"
           THEN /\ error' = IF out = "skipped" THEN error ELSE out
                /\ sent' = NoPayload
                /\ UNCHANGED <<isSubmitting, appError, loading, calls,
                               nextCall>>
         ELSE /\ nextCall <= MaxSubmits
              /\ isSubmitting' = TRUE
              /\ error' = Null
              /\ loading' = TRUE
              /\ appError' = Null
              /\ sent' = rouletteBuildPayload(spreadType, category,
                                              customQuestion, useCustomQuestion)
              /\ calls' = [calls EXCEPT
                             ![nextCall] = [pc |-> "post", stale |-> FALSE]]
              /\ nextCall' = nextCall + 1
  /\ rouletteStep' = "none"
  /\ called' = "none"
  /\ UNCHANGED apiVars
  /\ UNCHANGED swipeVars
  /\ UNCHANGED visible
  /\ typeCalls' = <<>>
  /\ pickOutcome' = "none"
  /\ UNCHANGED <<deck, spreadType, category, customQuestion, useCustomQuestion,
                 pickedCards, pickerVars, currentSpread, spreads, pickedCount,
                 isSpinning, isLocked, isFlipped, timers>>

\* handleNewSpread of this revision with App.handleResetCurrentSpread: the
\* form is mounted again, and the roulette in it starts from its initial
\* state.
rouletteNewSpread ==
  /\ currentSpread # NoSpread
  /\ currentSpread' = NoSpread
  /\ error' = Null
  /\ isSubmitting' = FALSE
  /\ spreadType' = "one"
  /\ category' = "daily"
  /\ customQuestion' = <<>>
  /\ useCustomQuestion' = FALSE
  /\ pickedCount' = 0
  /\ isSpinning' = TRUE
  /\ isLocked' = FALSE
  /\ isFlipped' = FALSE
  /\ timers' = Detached(timers)
  /\ rouletteStep' = "none"
  /\ called' = "none"
  /\ UNCHANGED apiVars
  /\ UNCHANGED swipeVars
  /\ UNCHANGED visible
  /\ calls' = [k \in CallIds |->
                 IF InFlight(calls[k]) THEN [calls[k] EXCEPT !.stale = TRUE]
                 ELSE calls[k]]
  /\ sent' = NoPayload
  /\ typeCalls' = <<>>
  /\ pickOutcome' = "none"
  /\ UNCHANGED <<deck, pickedCards, pickerVars, appError, loading, spreads,
                 nextCall>>

RouletteChangeSpreadType ==
  \E t \in {"one", "three"} : rouletteChangeSpreadType(t)

RouletteInit ==
  /\ Init
  /\ deck = UniqueDeck(MaxDeck)

RouletteNext ==
  \/ RouletteChangeSpreadType
  \/ CategoryChange
  \/ CustomQuestionChange
  \/ toggleUseCustomQuestion
  \/ rouletteHandlePick
  \/ rouletteSettle
  \/ rouletteHandleSubmit
  \/ rouletteNewSpread
  \/ PostSucceeds
  \/ PostFails
  \/ CreateSpreadEnds

RouletteSpec == RouletteInit /\ [][RouletteNext]_vars

(* ------------- buildPayload and handleSubmit on any draft ------------- *)

\* The two functions of SpreadsScreen that turn a draft into a request,
\* applied to every draft the state of the component can hold, whether or
\* not the handlers of the form can produce it; onPickCard never lets the
\* cards exceed maxCards, so no draft holds more.

\* The first n indices of the catalogue, as picked cards.
FirstCards(n) == [i \in 1..n |-> i - 1]

DraftInit ==
  /\ Init
  /\ deck = UniqueDeck(MaxDeck)

\* A draft is put into the state of the component.
setDraft(type, cat, text, useQ, n) ==
  /\ nextCall = 1
  /\ sent = NoPayload
  /\ error = Null
  /\ pickedCards = <<>>
  /\ spreadType' = type
  /\ category' = cat
  /\ customQuestion' = text
  /\ useCustomQuestion' = useQ
  /\ pickedCards' = FirstCards(n)
  /\ called' = "none"
  /\ UNCHANGED apiVars
  /\ UNCHANGED swipeVars
  /\ UNCHANGED visible
  /\ UNCHANGED <<deck, isSubmitting, error, pickerVars, appVars, calls,
                 nextCall, sent, typeCalls, pickOutcome, rouletteVars,
                 rouletteStep>>

SetDraft ==
  \E type \in {"one", "three"}, useQ \in BOOLEAN, text \in QuestionTexts,
     cat \in THREE_SPREAD_CATEGORIES \cup {"daily", Null},
     n \in 0..MaxDeck :
    /\ n <= MaxCards(type)
    /\ setDraft(type, cat, text, useQ, n)

\* buildPayload() is called on the draft as it stands.
callBuildPayload ==
  /\ sent = NoPayload
  /\ error = Null
  /\ sent' = buildPayload(spreadType, category, customQuestion,
                           useCustomQuestion, pickedCards)
  /\ called' = "buildPayload"
  /\ UNCHANGED apiVars
  /\ UNCHANGED swipeVars
  /\ UNCHANGED visible
  /\ UNCHANGED <<deck, draftVars, pickerVars, appVars, calls, nextCall,
                 typeCalls, pickOutcome, rouletteVars, rouletteStep>>

\* handleSubmit() is called on the draft as it stands.
callHandleSubmit ==
  /\ sent = NoPayload
  /\ error = Null
  /\ RunHandleSubmit(error)
  /\ called' = "handleSubmit"
  /\ UNCHANGED apiVars
  /\ UNCHANGED swipeVars
  /\ UNCHANGED visible
  /\ UNCHANGED <<deck, spreadType, category, customQuestion, useCustomQuestion,
                 pickedCards, pickerVars, currentSpread, spreads, typeCalls,
                 pickOutcome, rouletteVars, rouletteStep>>

\* handleCategoryChange(nextCat) is called on the draft as it stands (the
\* chips of the form call it only while the question is off).
callHandleCategoryChange(nextCat) ==
  /\ sent = NoPayload
  /\ error = Null
  /\ category' = CategoryAfterChange(useCustomQuestion, category, nextCat)
  /\ customQuestion' = QuestionAfterCategory(useCustomQuestion, customQuestion)
  /\ error' = IF useCustomQuestion THEN error ELSE Null
  /\ called' = "handleCategoryChange"
  /\ UNCHANGED apiVars
  /\ UNCHANGED swipeVars
  /\ UNCHANGED visible
  /\ UNCHANGED <<deck, spreadType, useCustomQuestion, pickedCards, isSubmitting,
                 pickerVars, appVars, calls, nextCall, sent, typeCalls,
                 pickOutcome, rouletteVars, rouletteStep>>

CallHandleCategoryChange ==
  \E c \in THREE_SPREAD_CATEGORIES : callHandleCategoryChange(c)

\* toggleUseCustomQuestion() is called on the draft as it stands.
callToggleUseCustomQuestion ==
  /\ sent = NoPayload
  /\ error = Null
  /\ useCustomQuestion' = ~useCustomQuestion
  /\ error' = Null
  /\ category' = CategoryAfterToggle(~useCustomQuestion, category)
  /\ customQuestion' = QuestionAfterToggle(~useCustomQuestion, customQuestion)
  /\ called' = "toggleUseCustomQuestion"
  /\ UNCHANGED apiVars
  /\ UNCHANGED swipeVars
  /\ UNCHANGED visible
  /\ UNCHANGED <<deck, spreadType, pickedCards, isSubmitting, pickerVars,
                 appVars, calls, nextCall, sent, typeCalls, pickOutcome,
                 rouletteVars, rouletteStep>>

DraftNext ==
  \/ SetDraft
  \/ callBuildPayload
  \/ callHandleSubmit
  \/ CallHandleCategoryChange
  \/ callToggleUseCustomQuestion

DraftSpec == DraftInit /\ [][DraftNext]_vars

(* ----------------------- api/client.js: apiRequest -------------------- *)
\* What fetch can give.  The request fails on the network, or a response
\* arrives with a status and a body.  The body is not JSON, the JSON null, an
\* object without the key "ok" (with or without a truthy "error"), or an
\* object with the key "ok": then ok is what the server wrote, and data and
\* error are absent ("undefined"), null or a value.
HttpStatuses == {200, 204, 404, 500}

FieldValues == {"undefined", Null, "value"}

Responses ==
  {[net |-> "error", status |-> 0, body |-> "none",
    ok |-> FALSE, data |-> "undefined", error |-> "undefined"]}
  \cup {[net |-> "ok", status |-> st, body |-> b,
         ok |-> FALSE, data |-> "undefined", error |-> "undefined"] :
          st \in HttpStatuses, b \in {"unparsable", "null"}}
  \cup {[net |-> "ok", status |-> st, body |-> "bare",
         ok |-> FALSE, data |-> "undefined", error |-> e] :
          st \in HttpStatuses, e \in {"undefined", "value"}}
  \cup {[net |-> "ok", status |-> st, body |-> "envelope",
         ok |-> o, data |-> d, error |-> e] :
          st \in HttpStatuses, o \in BOOLEAN, d \in FieldValues,
          e \in FieldValues}

\* res.ok of fetch: the status is in 200..299.
HttpOk(status) == status >= 200 /\ status <= 299

Returned(okField, dataField, errorField) ==
  [returned |-> TRUE, ok |-> okField, data |-> dataField, error |-> errorField]

\* return json: the object of the server is handed on as it is.
PassedOn(r) == Returned(r.ok, r.data, r.error)

apiRequest(r) ==
  IF r.net = "error"
    THEN Returned(FALSE, Null, "Network error")
  ELSE IF r.status = 204
    THEN Returned(TRUE, Null, Null)
  ELSE IF r.body = "unparsable"
    THEN Returned(FALSE, Null, "Invalid JSON response")
  ELSE IF ~HttpOk(r.status)
    THEN IF r.body = "envelope"
           THEN PassedOn(r)
           ELSE Returned(FALSE, Null,
                         IF r.error = "value" THEN "value" ELSE "HTTP status")
  ELSE IF r.body = "envelope" /\ r.data # "undefined"
    THEN PassedOn(r)
  ELSE Returned(TRUE, IF r.body = "null" THEN Null ELSE "json", Null)

\* fetch settles: the promise rejects or a response arrives.
fetchSettles(r) ==
  /\ response = NoResponse
  /\ response' = r
  /\ UNCHANGED result
  /\ UNCHANGED swipeVars
  /\ UNCHANGED visible
  /\ called' = "none"
  /\ rouletteStep' = "none"
  /\ UNCHANGED <<deck, spreadType, category, customQuestion, useCustomQuestion,
                 pickedCards, isSubmitting, error, currentIndex, usedIndices,
                 currentSpread, appError, loading, spreads, calls, nextCall,
                 sent, typeCalls, pickOutcome>>
  /\ UNCHANGED rouletteVars

FetchSettles == \E r \in Responses : fetchSettles(r)

\* The rest of apiRequest, from the catch of fetch to the last return.
apiRequestReturns ==
  /\ response # NoResponse
  /\ ~result.returned
  /\ result' = apiRequest(response)
  /\ UNCHANGED response
  /\ UNCHANGED swipeVars
  /\ UNCHANGED visible
  /\ called' = "apiRequest"
  /\ rouletteStep' = "none"
  /\ UNCHANGED <<deck, spreadType, category, customQuestion, useCustomQuestion,
                 pickedCards, isSubmitting, error, currentIndex, usedIndices,
                 currentSpread, appError, loading, spreads, calls, nextCall,
                 sent, typeCalls, pickOutcome>>
  /\ UNCHANGED rouletteVars

ApiNext == FetchSettles \/ apiRequestReturns

ApiSpec == DraftInit /\ [][ApiNext]_vars

(* -------- TarotCarousel, the revision with swipe, spin and arrows ------ *)
\* In this revision the cursor is the state "index" of TarotCarousel (held
\* in currentIndex here), the circle has TOTAL_CARDS places whatever the
\* catalogue, selectedCount and maxCards are props (pickedCount and
\* MaxCards(spreadType) here).  The parent that owns selectedCount is
\* outside this component: it is taken to count every card handed to
\* onSelectCard, and the carousel to be hidden once the count is full.
TOTAL_CARDS == 78

SWIPE_THRESHOLD == 40

MAX_SPIN_STEPS == 18

\* Where a drag can be: clientX relative to where it began.
DragPositions == {-50, 0, 50}

\* Variant of stepOnce that does not wrap.
stepOnceNoWrap(prev, dir) == prev + dir

\* stepOnce: one place in the direction dir, wrapping at both ends.
stepOnce(prev, dir) ==
  IF prev + dir < 0 THEN TOTAL_CARDS - 1
  ELSE IF prev + dir >= TOTAL_CARDS THEN 0
  ELSE prev + dir

\* !hasFullSelection: the carousel and its controls are rendered.
CarouselShown == pickedCount < MaxCards(spreadType)

swipeOthers ==
  <<deck, spreadType, category, customQuestion, useCustomQuestion,
    pickedCards, isSubmitting, error, usedIndices, currentSpread, appError,
    loading, spreads, calls, nextCall, sent, typeCalls, pickOutcome,
    isLocked, isFlipped, timers, response, result, visible>>

SwipeInit ==
  /\ deck = UniqueDeck(MaxDeck)
  /\ spreadType \in {"one", "three"}
  /\ category = "general"
  /\ customQuestion = <<>>
  /\ useCustomQuestion = FALSE
  /\ pickedCards = <<>>
  /\ isSubmitting = FALSE
  /\ error = Null
  /\ currentIndex = 0
  /\ usedIndices = {}
  /\ currentSpread = NoSpread
  /\ appError = Null
  /\ loading = FALSE
  /\ spreads = <<>>
  /\ calls = [k \in CallIds |-> NoCall]
  /\ nextCall = 1
  /\ sent = NoPayload
  /\ typeCalls = <<>>
  /\ pickOutcome = "none"
  /\ pickedCount = 0
  /\ isSpinning = FALSE
  /\ isLocked = FALSE
  /\ isFlipped = FALSE
  /\ timers = <<>>
  /\ rouletteStep = "none"
  /\ called = "none"
  /\ response = NoResponse
  /\ result = NoResult
  /\ direction = 1
  /\ dragStartX = <<>>
  /\ dragDeltaX = 0
  /\ spinTimer = <<>>
  /\ flipState = "idle"
  /\ flipTimers = 0
  /\ visible = <<>>

\* startDrag (mouse down, touch start): refused during a spin.
startDrag ==
  /\ CarouselShown
  /\ ~isSpinning
  /\ dragStartX' = <<0>>
  /\ dragDeltaX' = 0
  /\ called' = "startDrag"
  /\ rouletteStep' = "none"
  /\ UNCHANGED <<currentIndex, isSpinning, pickedCount, direction, spinTimer,
                 flipState, flipTimers>>
  /\ UNCHANGED swipeOthers

\* moveDrag (mouse move, touch move).
moveDrag(clientX) ==
  /\ CarouselShown
  /\ dragStartX # <<>>
  /\ dragDeltaX' = clientX - dragStartX[1]
  /\ called' = "moveDrag"
  /\ rouletteStep' = "none"
  /\ UNCHANGED <<currentIndex, isSpinning, pickedCount, direction, dragStartX,
                 spinTimer, flipState, flipTimers>>
  /\ UNCHANGED swipeOthers

MoveDrag == \E clientX \in DragPositions : moveDrag(clientX)

\* The dir of the spin a drag of delta starts, 0 for none.
SwipeDir(delta) ==
  IF delta > SWIPE_THRESHOLD THEN -1
  ELSE IF -delta > SWIPE_THRESHOLD THEN 1
  ELSE 0

\* endDrag (mouse up, mouse leave, touch end).  A drag longer than the
\* threshold runs startSpin(dir): stopSpin(false), setDirection,
\* setIsSpinning(true) and spinStep(0), which steps once and arms the timeout
\* of spinStep(1).
endDrag ==
  /\ CarouselShown
  /\ dragStartX # <<>>
  /\ LET dir == SwipeDir(dragDeltaX) IN
       IF dir # 0
         THEN /\ direction' = dir
              /\ isSpinning' = TRUE
              /\ currentIndex' = stepOnce(currentIndex, dir)
              /\ spinTimer' = <<[step |-> 1, dir |-> dir]>>
              /\ called' = "startSpin"
         ELSE /\ UNCHANGED <<direction, isSpinning, currentIndex, spinTimer>>
              /\ called' = "endDrag"
  /\ dragStartX' = <<>>
  /\ dragDeltaX' = 0
  /\ rouletteStep' = "none"
  /\ UNCHANGED <<pickedCount, flipState, flipTimers>>
  /\ UNCHANGED swipeOthers

\* The timeout of spinStep fires: the spin ends at MAX_SPIN_STEPS, else the
\* cursor steps once more and the next timeout is armed.
spinStep ==
  /\ spinTimer # <<>>
  /\ IF spinTimer[1].step >= MAX_SPIN_STEPS
       THEN /\ isSpinning' = FALSE
            /\ spinTimer' = <<>>
            /\ UNCHANGED currentIndex
       ELSE /\ currentIndex' = stepOnce(currentIndex, spinTimer[1].dir)
            /\ spinTimer' = <<[spinTimer[1] EXCEPT !.step = @ + 1]>>
            /\ UNCHANGED isSpinning
  /\ called' = "spinStep"
  /\ rouletteStep' = "none"
  /\ UNCHANGED <<pickedCount, direction, dragStartX, dragDeltaX, flipState,
                 flipTimers>>
  /\ UNCHANGED swipeOthers

\* handlePrev and handleNext: the arrows, disabled and refused during a spin.
handleArrow(dir) ==
  /\ CarouselShown
  /\ ~isSpinning
  /\ currentIndex' = stepOnce(currentIndex, dir)
  /\ called' = IF dir < 0 THEN "handlePrev" ELSE "handleNext"
  /\ rouletteStep' = "none"
  /\ UNCHANGED <<isSpinning, pickedCount>>
  /\ UNCHANGED swipeVars
  /\ UNCHANGED swipeOthers

HandleArrow == \E dir \in {-1, 1} : handleArrow(dir)

\* A tap on the main card or on the button under it: stopSpin(true) during a
\* spin, handleChoose otherwise.  stopSpin clears the timeout of spinStep;
\* handleChoose hands the index to the parent and starts the flip.
chooseCard ==
  /\ CarouselShown
  /\ flipTimers < MaxTimers
  /\ isSpinning' = FALSE
  /\ spinTimer' = <<>>
  /\ pickedCount' = pickedCount + 1
  /\ flipState' = "flipping"
  /\ flipTimers' = flipTimers + 1
  /\ called' = IF isSpinning THEN "stopSpin" ELSE "handleChoose"
  /\ rouletteStep' = "none"
  /\ UNCHANGED <<currentIndex, direction, dragStartX, dragDeltaX>>
  /\ UNCHANGED swipeOthers

\* The timeout of handleChoose fires, 600 ms after the choice.
flipEnds ==
  /\ flipTimers > 0
  /\ flipState' = "idle"
  /\ flipTimers' = flipTimers - 1
  /\ called' = "flipEnds"
  /\ rouletteStep' = "none"
  /\ UNCHANGED <<currentIndex, isSpinning, pickedCount, direction, dragStartX,
                 dragDeltaX, spinTimer>>
  /\ UNCHANGED swipeOthers

SwipeNext ==
  \/ startDrag
  \/ MoveDrag
  \/ endDrag
  \/ spinStep
  \/ HandleArrow
  \/ chooseCard
  \/ flipEnds

SwipeSpec == SwipeInit /\ [][SwipeNext]_vars

(* ------- TarotCarouselPicker, the autospin wheel of five cards -------- *)
\* The revision whose wheel shows the cards around the cursor.  The cursor
\* and the catalogue are drawn from all the values the state and the prop
\* can hold, so that clampIndex meets cursors on both sides of the circle.

\* The wheel shows the offsets -Radius..Radius around the cursor.
Radius == 2

\* cardsCount: the length of the catalogue, 78 without one.
cardsCount == IF Len(deck) > 0 THEN Len(deck) ELSE 78

\* Variant of visibleIndices that does not bring the indices into the circle.
visibleIndicesNoClamp(cursor, n) ==
  [i \in 1..(2 * Radius + 1) |-> cursor + (i - 1 - Radius)]

\* visibleIndices: clampIndex(currentIndex + offset) for offset = -2..2.
visibleIndices(cursor, n) ==
  [i \in 1..(2 * Radius + 1) |-> clampIndex(cursor + (i - 1 - Radius), n)]

\* isDone is false: the picker renders.
WheelShown == pickedCount < MaxCards(spreadType)

wheelOthers ==
  <<deck, spreadType, category, customQuestion, useCustomQuestion,
    pickedCards, isSubmitting, usedIndices, currentSpread, appError,
    loading, spreads, calls, nextCall, sent, typeCalls, pickOutcome,
    isLocked, isFlipped, timers, response, result>>

WheelInit ==
  /\ deck \in {UniqueDeck(n) : n \in 0..MaxDeck}
  /\ spreadType \in {"one", "three"}
  /\ category = "general"
  /\ customQuestion = <<>>
  /\ useCustomQuestion = FALSE
  /\ pickedCards = <<>>
  /\ isSubmitting = FALSE
  /\ error = Null
  /\ currentIndex \in (-MaxCursor)..MaxCursor
  /\ usedIndices = {}
  /\ currentSpread = NoSpread
  /\ appError = Null
  /\ loading = FALSE
  /\ spreads = <<>>
  /\ calls = [k \in CallIds |-> NoCall]
  /\ nextCall = 1
  /\ sent = NoPayload
  /\ typeCalls = <<>>
  /\ pickOutcome = "none"
  /\ pickedCount = 0
  /\ isSpinning = TRUE
  /\ isLocked = FALSE
  /\ isFlipped = FALSE
  /\ timers = <<>>
  /\ rouletteStep = "none"
  /\ called = "none"
  /\ response = NoResponse
  /\ result = NoResult
  /\ direction = 1
  /\ dragStartX = <<>>
  /\ dragDeltaX = 0
  /\ spinTimer = <<>>
  /\ flipState = "idle"
  /\ flipTimers = 0
  /\ visible = <<>>

\* The interval of the spin fires; it exists only while isSpinning.
wheelTick ==
  /\ WheelShown
  /\ isSpinning
  /\ currentIndex' = clampIndex(currentIndex + 1, cardsCount)
  /\ called' = "tick"
  /\ rouletteStep' = "none"
  /\ UNCHANGED <<isSpinning, pickedCount, error, visible>>
  /\ UNCHANGED swipeVars
  /\ UNCHANGED wheelOthers

\* useMemo of visibleIndices runs in a render.
wheelRender ==
  /\ WheelShown
  /\ visible' = visibleIndices(currentIndex, cardsCount)
  /\ called' = "visibleIndices"
  /\ rouletteStep' = "none"
  /\ UNCHANGED <<currentIndex, isSpinning, pickedCount, error>>
  /\ UNCHANGED swipeVars
  /\ UNCHANGED wheelOthers

\* handlePick: a tap on the main card.  The page passes onPick only, which
\* counts the card and clears the error; the spin stops.
wheelHandlePick ==
  /\ WheelShown
  /\ pickedCount' = IF pickedCount + 1 <= MaxCards(spreadType)
                      THEN pickedCount + 1 ELSE MaxCards(spreadType)
  /\ error' = Null
  /\ isSpinning' = FALSE
  /\ called' = "handlePick"
  /\ rouletteStep' = "none"
  /\ UNCHANGED <<currentIndex, visible>>
  /\ UNCHANGED swipeVars
  /\ UNCHANGED wheelOthers

WheelNext == wheelTick \/ wheelRender \/ wheelHandlePick

WheelSpec == WheelInit /\ [][WheelNext]_vars

\* The phase of the draft, read off what is rendered: the result view, the
\* submit button in its waiting state, the error alert of App, the form.
Phase ==
  IF currentSpread # NoSpread THEN "result"
  ELSE IF isSubmitting THEN "submitting"
  ELSE IF appError # Null THEN "error"
  ELSE "picking"

TypeOK ==
  /\ spreadType \in {"one", "three"}
  /\ category \in THREE_SPREAD_CATEGORIES \cup {"daily", Null}
  /\ customQuestion \in QuestionTexts
  /\ currentIndex \in 0..(CardsCount - 1)
  /\ usedIndices \subseteq 0..(CardsCount - 1)
  /\ nextCall \in 1..(MaxSubmits + 1)

(* ------------------------------ claims -------------------------------- *)

UniqueCodes == \A i, j \in 1..Len(deck) : deck[i] = deck[j] => i = j

\* pickedCards holds exactly the cards onPickCard reported since it was last
\* cleared, and it is cleared by nothing but a change of spread type or a
\* reset, so every draft lifetime is a contiguous part of it.

\* C1: with a catalogue of unique codes, the codes of the cards reported by
\* the picker within one draft lifetime are pairwise distinct, wherever the
\* cursor stood at each pick.
C1_PicksDistinct ==
  UniqueCodes =>
    \A i, j \in 1..Len(pickedCards) :
      i # j => CodeOf(pickedCards[i]) # CodeOf(pickedCards[j])

\* Three cards were caught in one lifetime, from a catalogue of unique codes.
C1_Witness ==
  /\ UniqueCodes
  /\ spreadType = "three"
  /\ Len(pickedCards) = 3

\* C2: the picked list is never longer than the spread type allows.
C2_Cardinality == Len(pickedCards) <= MaxCards(spreadType)

\* The list of a one-card spread is full although the catalogue has more cards.
C2_Witness ==
  /\ spreadType = "one"
  /\ Len(pickedCards) = 1
  /\ CardsCount > 1

\* C3: the outcome of a creation request that was in flight when the draft
\* was reset is discarded when it resolves: the phase, the current spread and
\* the error shown stay as they were.
C3_StaleOutcomeDiscarded ==
  [][\A k \in CallIds :
       (calls[k].stale /\ calls[k].pc = "post" /\ calls'[k].pc # "post")
         => /\ Phase' = Phase
            /\ currentSpread' = currentSpread
            /\ appError' = appError]_vars

\* C4: at most one POST /spreads is in flight at any time.
C4_SinglePostInFlight ==
  Cardinality({ k \in CallIds : calls[k].pc = "post" }) <= 1

MutatingCall ==
  \/ ChangeSpreadType
  \/ CategoryChange
  \/ CustomQuestionChange
  \/ toggleUseCustomQuestion
  \/ handlePick

\* C5: a mutating call made while the phase is not "picking" leaves the
\* spread type, the category, the question, its switch, the picked cards and
\* the phase unchanged.
C5_PhaseLockout ==
  [][(Phase # "picking" /\ MutatingCall)
       => /\ UNCHANGED <<spreadType, category, customQuestion,
                         useCustomQuestion, pickedCards>>
          /\ Phase' = Phase]_vars

\* isReadyToSubmit() of the draft.
IsReadyToSubmit ==
  /\ Len(pickedCards) = MaxCards(spreadType)
  /\ spreadType = "three" =>
       IF useCustomQuestion THEN Trim(customQuestion) # <<>>
       ELSE category # Null

PayloadValid(p) ==
  /\ Len(p.cards) = MaxCards(p.spread_type)
  /\ p.spread_type = "three" =>
       \/ p.category # Null /\ p.question = NullText
       \/ p.category = Null /\ p.question \notin {NullText, <<>>}

\* C6: a payload handed to apiPost is the payload of the draft as it stands,
\* the draft is ready to submit, the payload holds exactly the required
\* number of codes and, for three cards, exactly one of category and
\* question.
C6_OnlyValidPayloadsSent ==
  sent # NoPayload =>
    /\ IsReadyToSubmit
    /\ sent = buildPayload(spreadType, category, customQuestion,
                           useCustomQuestion, pickedCards)
    /\ PayloadValid(sent)

\* A three-card spread with a question of the user was sent.
C6_Witness ==
  /\ sent # NoPayload
  /\ sent.spread_type = "three"
  /\ sent.question # NullText

LegalPhaseMoves ==
  { <<"picking", "submitting">>, <<"submitting", "result">>,
    <<"submitting", "error">>, <<"error", "submitting">>,
    <<"error", "picking">>, <<"result", "picking">> }

\* C7: the phase moves only picking -> submitting -> (result | error),
\* error -> submitting, and to picking from error or result by a reset only.
C7_PhaseOrder ==
  [][Phase' # Phase =>
       /\ <<Phase, Phase'>> \in LegalPhaseMoves
       /\ Phase' = "picking" => handleNewSpread]_vars

\* C8: the payload built from the draft never carries both a category and a
\* question.
C8_MutualExclusion ==
  LET p == buildPayload(spreadType, category, customQuestion,
                        useCustomQuestion, pickedCards)
  IN  p.category = Null \/ p.question = NullText

\* A draft whose payload carries a question, typed after a category had been
\* chosen and the question switched on.
C8_Witness ==
  /\ spreadType = "three"
  /\ useCustomQuestion
  /\ Trim(customQuestion) # <<>>
  /\ buildPayload(spreadType, category, customQuestion, useCustomQuestion,
                  pickedCards).question # NullText

\* C9: after handleChangeSpreadType("one") followed by
\* handleChangeSpreadType("three") no card is picked and the category is
\* "general".
C9_TypeReset ==
  typeCalls = <<"one", "three">> =>
    /\ pickedCards = <<>>
    /\ category = "general"

\* The two calls were made back to back.
C9_Witness == typeCalls = <<"one", "three">>

\* C10: while the spread type is "one" the category is "daily", the question
\* is empty and its switch is off.
C10_OneCardDefaults ==
  spreadType = "one" =>
    /\ category = "daily"
    /\ customQuestion = <<>>
    /\ useCustomQuestion = FALSE

\* C11: while three cards are asked for and the question of the user is
\* switched on, the category is null.
C11_QuestionClearsCategory ==
  (spreadType = "three" /\ useCustomQuestion) => category = Null

\* The question was switched on for a three-card spread and a text typed.
C11_Witness ==
  /\ spreadType = "three"
  /\ useCustomQuestion
  /\ customQuestion # <<>>
  /\ category = Null

\* C12: while three cards are asked for and the question of the user is
\* switched off, no question text is stored.
C12_NoQuestionWhileOff ==
  (spreadType = "three" /\ ~useCustomQuestion) => customQuestion = <<>>

\* The question is off and a category other than the default is chosen, all
\* three cards being picked.
C12_Witness ==
  /\ spreadType = "three"
  /\ ~useCustomQuestion
  /\ category = "love"
  /\ customQuestion = <<>>
  /\ Len(pickedCards) = 3

\* The payload buildPayload() returns for the draft as it stands.
DraftPayload ==
  buildPayload(spreadType, category, customQuestion, useCustomQuestion,
               pickedCards)

C14_CategoryPayload ==
  /\ [](  (spreadType = "three" /\ ~useCustomQuestion /\ category # Null) =>
            /\ DraftPayload.spread_type = "three"
            /\ DraftPayload.category = category
            /\ DraftPayload.question = NullText
            /\ Len(DraftPayload.cards) = Len(pickedCards)
            /\ \A i \in 1..Len(pickedCards) :
                 DraftPayload.cards[i] = deck[pickedCards[i] + 1] )
  /\ [][ (handlePick /\ pickedCards' # pickedCards) =>
           /\ Len(pickedCards') = Len(pickedCards) + 1
           /\ SubSeq(pickedCards', 1, Len(pickedCards)) = pickedCards ]_vars

\* Three cards were picked for a chosen category, the first pick being a
\* later card of the catalogue than the second.
C14_Witness ==
  /\ spreadType = "three"
  /\ ~useCustomQuestion
  /\ category = "love"
  /\ Len(pickedCards) = 3
  /\ pickedCards[1] > pickedCards[2]
  /\ CodeOf(pickedCards[1]) # CodeOf(pickedCards[2])

Spaces(n) == [i \in 1..n |-> " "]

\* t is s without its leading and trailing spaces.
IsTrimOf(t, s) ==
  /\ t = <<>> \/ (Head(t) # " " /\ t[Len(t)] # " ")
  /\ \E a, b \in 0..Len(s) : s = Spaces(a) \o t \o Spaces(b)

\* C15: with the question switched on for three cards the payload carries
\* the stored text without its leading and trailing whitespace and a null
\* category; the textarea stores the text as typed.
C15_QuestionPayload ==
  /\ [](  (spreadType = "three" /\ useCustomQuestion) =>
            /\ IsTrimOf(DraftPayload.question, customQuestion)
            /\ DraftPayload.category = Null )
  /\ [][ \A v \in QuestionTexts :
           handleCustomQuestionChange(v) => customQuestion' = v ]_vars

\* A padded question is stored as typed and trimmed in the payload.
C15_Witness ==
  /\ spreadType = "three"
  /\ useCustomQuestion
  /\ customQuestion = <<" ", "q", " ">>
  /\ DraftPayload.question = <<"q">>

Cursors == (0 - MaxCursor)..MaxCursor

\* C16: resolving a cursor against the catalogue in use (N cards, every N
\* from 1 to MaxDeck) gives an index of the catalogue, the same index for
\* cursor and cursor + N, for negative cursors too; clampIndex and the
\* formula of handleScroll agree.
C16_ResolvePeriodic ==
  \A c \in Cursors :
    /\ SafeIndex(c, CardsCount) \in 0..(CardsCount - 1)
    /\ (SafeIndex(c, CardsCount) - c) % CardsCount = 0
    /\ SafeIndex(c, CardsCount) = SafeIndex(c + CardsCount, CardsCount)
    /\ clampIndex(c, CardsCount) = SafeIndex(c, CardsCount)

\* The wheel of the largest catalogue was scrolled one step before its first
\* card: the cursor stands on the last card.
C16_Witness ==
  /\ CardsCount = MaxDeck
  /\ CardsCount > 1
  /\ currentIndex = SafeIndex(0 - 1, CardsCount)
  /\ currentIndex = CardsCount - 1

\* C17: a press of the catch button that finds every card of the catalogue
\* used hands no card to the caller, adds nothing to the used indices or to
\* the picked cards, and leaves an error shown to the user.
C17_ExhaustionReported ==
  /\ [][ (handlePick /\ pickOutcome' = "exhausted") =>
           UNCHANGED <<pickedCards, usedIndices>> ]_vars
  /\ [](pickOutcome = "exhausted" => (error # Null \/ appError # Null))

\* C18: when the creation request fails the phase becomes "error" with a
\* message shown, no spread is stored as the current one, and no request is
\* issued by the failure itself: a request is only ever issued by a press of
\* the submit button or by the submit that follows a pick.
C18_FailureEndsInError ==
  [][ /\ \A k \in CallIds :
           postFails(k) => /\ Phase' = "error"
                           /\ appError' # Null
                           /\ currentSpread' = currentSpread
                           /\ spreads' = spreads
                           /\ nextCall' = nextCall
      /\ nextCall' # nextCall => (handleSubmit \/ handlePick) ]_vars

ValidationMessages == {MsgEmptyQuestion, MsgNoCategory, MsgNotEnough}

\* The submit that follows a pick runs with the draft of the render in which
\* the card was caught, which is short of that card.
SubmitsAfterPick ==
  /\ handlePick
  /\ pickOutcome' = "card"
  /\ Len(pickedCards) + 1 >= MaxCards(spreadType)
  /\ ~isSubmitting

\* C19: a submit made on a draft that is not ready to submit (by the button,
\* or by the submit that follows a pick) issues no request and changes
\* neither the draft nor the phase nor the error of the creation request:
\* all it leaves is the validation message.
C19_ValidationRejects ==
  [][ /\ (handleSubmit /\ ~IsReadyToSubmit) =>
           /\ UNCHANGED <<spreadType, category, customQuestion,
                           useCustomQuestion, pickedCards, isSubmitting,
                           pickerVars, appVars, calls, nextCall>>
           /\ sent' = NoPayload
           /\ Phase' = Phase
           /\ error' \in ValidationMessages
      /\ (SubmitsAfterPick /\ ~IsReadyToSubmit) =>
           /\ UNCHANGED <<spreadType, category, customQuestion,
                           useCustomQuestion, isSubmitting, appVars, calls,
                           nextCall>>
           /\ sent' = NoPayload
           /\ Phase' = Phase
           /\ error' \in ValidationMessages ]_vars

\* The submit button was pressed with all three cards picked and a blank
\* question: the message is shown and nothing is in flight.
C19_Witness ==
  /\ error = MsgEmptyQuestion
  /\ Len(pickedCards) = 3
  /\ useCustomQuestion
  /\ ~isSubmitting
  /\ \A k \in CallIds : calls[k].pc = "idle"

\* C20: the reset is made from the phase "result" or "error" only; after it
\* the spread type is the default "one" with its category, no card is
\* picked, no question is stored, the picker has no used index (every card
\* can be caught again), and the phase is "picking".
C20_ResetRestoresDefaults ==
  [][ handleNewSpread =>
        /\ Phase \in {"result", "error"}
        /\ spreadType' = "one"
        /\ category' = "daily"
        /\ customQuestion' = <<>>
        /\ useCustomQuestion' = FALSE
        /\ pickedCards' = <<>>
        /\ usedIndices' = {}
        /\ PickIndex(currentIndex', usedIndices', CardsCount) = currentIndex'
        /\ Phase' = "picking" ]_vars

\* C21: whenever the phase is "submitting" it is eventually another phase,
\* whatever the network does with the request.
C21_SubmissionEnds == (Phase = "submitting") ~> (Phase # "submitting")

\* C22: every handleChangeSpreadType made in the phase "picking" leaves no
\* card picked, also when the type chosen is the type already active.
C22_TypeCallClearsPicks ==
  [][ \A t \in {"one", "three"} :
        (Phase = "picking" /\ handleChangeSpreadType(t)) =>
          pickedCards' = <<>> ]_vars

RECURSIVE SetOf(_)
SetOf(cards) ==
  IF cards = <<>> THEN {} ELSE {Head(cards)} \cup SetOf(Tail(cards))

\* C23 as stated: in every state the used indices of the picker are the
\* cards of pickedCards.
C23_UsedEqualsPicked == usedIndices = SetOf(pickedCards)

\* C23 as the code has it: while the picker is on screen its used indices
\* are the cards of pickedCards, so no card absent from the draft is
\* blocked; the picker keeps no used index while it is not rendered (all
\* cards picked, or the result shown), and it is rendered again only after
\* pickedCards was cleared.
C23_UsedEqualsPickedWhileShown ==
  /\ PickerShown => usedIndices = SetOf(pickedCards)
  /\ ~PickerShown => usedIndices = {}

\* Two cards of a three-card spread are picked and the picker is on screen.
C23_Witness ==
  /\ PickerShown
  /\ spreadType = "three"
  /\ Len(pickedCards) = 2
  /\ usedIndices # {}

\* C24: whatever the catalogue, duplicate codes included, no two picked
\* cards of a draft have the same code.
C24_DistinctCodesAnyCatalogue ==
  \A i, j \in 1..Len(pickedCards) :
    i # j => CodeOf(pickedCards[i]) # CodeOf(pickedCards[j])

\* A press of the catch button with the cursor on a card that was picked
\* before, while another card is left.
FallbackPick ==
  /\ handlePick
  /\ pickOutcome' = "card"
  /\ SafeIndex(currentIndex, CardsCount) \in usedIndices

\* C25 as stated: the fallback of a pick takes the first unused card met
\* from the index after the cursor onwards, wrapping around.
C25_FallbackScansForward ==
  [][ FallbackPick =>
        pickedCards'[Len(pickedCards')] =
          NextUnusedAfter(SafeIndex(currentIndex, CardsCount), usedIndices,
                          CardsCount) ]_vars

\* C25 as the code has it: the fallback of a pick takes the unused card of
\* the lowest index of the whole catalogue.
C25_FallbackLowestUnused ==
  [][ FallbackPick =>
        /\ Len(pickedCards') = Len(pickedCards) + 1
        /\ pickedCards'[Len(pickedCards')] \notin usedIndices
        /\ \A i \in 0..(CardsCount - 1) :
             i \notin usedIndices => pickedCards'[Len(pickedCards')] <= i ]_vars

\* The second card was just caught with the cursor on the first one, the
\* middle card: the card before it was taken, not the card after it.
C25_Witness ==
  /\ pickOutcome = "card"
  /\ CardsCount = 3
  /\ currentIndex = 1
  /\ pickedCards = <<1, 0>>

\* C26: a card handed to onPickCard is left out, pickedCards unchanged, when
\* the list is full or holds a card of the same code, and is appended at the
\* end otherwise.
C26_AddRejectsFullOrDuplicate ==
  [][ (handlePick /\ pickOutcome' = "card") =>
        LET i == PickIndex(currentIndex, usedIndices, CardsCount)
        IN  IF \/ Len(pickedCards) >= MaxCards(spreadType)
               \/ \E j \in 1..Len(pickedCards) :
                    CodeOf(pickedCards[j]) = CodeOf(i)
              THEN pickedCards' = pickedCards
              ELSE pickedCards' = Append(pickedCards, i) ]_vars

\* C27: the pick that completes the cards of a draft that is then ready to
\* submit hands a payload to apiPost in the same step, holding the codes of
\* all the cards, the one just caught included.
C27_LastPickSubmits ==
  [][ ( /\ handlePick
        /\ pickOutcome' = "card"
        /\ ~isSubmitting
        /\ Len(pickedCards') = MaxCards(spreadType)
        /\ IsReadyToSubmit' ) =>
        /\ sent' # NoPayload
        /\ sent'.cards = CodesOf(pickedCards')
        /\ Len(sent'.cards) = MaxCards(spreadType) ]_vars


\* The pending settles of picks made for the draft as it is now.
FreshTimers == {i \in 1..Len(timers) : ~timers[i].stale}

\* C28: a pick of the roulette takes effect only while it spins and is not
\* locked; a pick requested while the previous one is still settling changes
\* nothing, so at most one pick of the draft is settling at a time, and each
\* settle makes one report upward (one timer ends, the count is credited at
\* most one card); the roulette never spins while it is locked.
C28_PickOnlyWhileIdle ==
  /\ [](isLocked => ~isSpinning)
  /\ [](Cardinality(FreshTimers) <= 1)
  /\ []((FreshTimers # {}) => isLocked)
  /\ [][ /\ (rouletteStep' = "pick") => (isSpinning /\ ~isLocked)
         /\ (rouletteHandlePick /\ isLocked) =>
              (rouletteStep' = "ignored" /\
               UNCHANGED <<pickedCount, isSpinning, isLocked, isFlipped,
                           timers, draftVars, appVars>>)
         /\ (rouletteStep' = "settle") =>
              (/\ Len(timers') = Len(timers) - 1
               /\ pickedCount' <= pickedCount + 1) ]_vars

\* A click on the main card while the first caught card is still flipping.
C28_Witness ==
  /\ rouletteStep = "ignored"
  /\ isLocked
  /\ ~isSpinning
  /\ Len(timers) = 1

\* C29: when a pick of the roulette resolves, the roulette spins again and
\* is unlocked if and only if the draft still lacks cards; while the draft
\* has all its cards the roulette stays stopped and locked, and no pick is
\* accepted; once a reset or a selection of the spread type has left the
\* draft short of cards with nothing settling, the roulette is unlocked again.
C29_ResumesIffCardsMissing ==
  /\ []((RouletteShown /\ timers = <<>>) => ~isLocked)
  /\ [][ (rouletteStep' = "settle" /\ currentSpread' = NoSpread) =>
           ((isSpinning' /\ ~isLocked') <=>
              (pickedCount' < MaxCards(spreadType'))) ]_vars
  /\ []((currentSpread = NoSpread /\ pickedCount >= MaxCards(spreadType)) =>
          (~isSpinning /\ isLocked))
  /\ [][ (rouletteStep' = "pick") =>
           (pickedCount < MaxCards(spreadType)) ]_vars

\* C30: a settle that was pending when the spread type was selected or the
\* draft was reset does not credit the new draft: when its timer fires, the
\* count of the new draft is unchanged and the roulette spins, unlocked.
C30_LateSettleNotCredited ==
  [][ (rouletteStep' = "settle" /\ Head(timers).stale) =>
        (/\ pickedCount' = pickedCount
         /\ isSpinning'
         /\ ~isLocked') ]_vars

\* C32 as stated: while no submission is running, the submit button can be
\* pressed exactly when the draft is ready to submit.
C32_OfferedIffReady ==
  (FormShown /\ ~isSubmitting) => (SubmitOffered <=> IsReadyToSubmit)

\* C32: the submit button can be pressed exactly when no submission is
\* running and the draft holds the required number of cards; every draft
\* that is ready to submit is offered it unless a submission is running, and
\* a press on a draft that is not ready (a blank question) is answered with
\* the validation message, not with a request.
C32_OfferedIffCardsComplete ==
  /\ [](FormShown =>
          (SubmitOffered <=>
             (~isSubmitting /\ Len(pickedCards) = MaxCards(spreadType))))
  /\ []((FormShown /\ IsReadyToSubmit /\ ~isSubmitting) => SubmitOffered)
  /\ [][ handleSubmit =>
           /\ ~isSubmitting
           /\ Len(pickedCards) = MaxCards(spreadType)
           /\ ~IsReadyToSubmit =>
                (sent' = NoPayload /\ error' \in ValidationMessages) ]_vars

\* The button is offered on a three-card draft with all cards and a blank
\* question, and a press has just been answered with the message.
C32_Witness ==
  /\ SubmitOffered
  /\ ~IsReadyToSubmit
  /\ error = MsgEmptyQuestion
  /\ Len(pickedCards) = 3

\* C33 as stated: whatever is called on a draft that is not ready to submit
\* returns no payload, and no payload is returned that is short of cards or,
\* with the question of the user enabled, has an empty question.
C33_BuildPayloadValidates ==
  [][ (sent' # NoPayload) =>
        /\ IsReadyToSubmit
        /\ Len(sent'.cards) = MaxCards(sent'.spread_type)
        /\ useCustomQuestion => sent'.question # <<>> ]_vars

\* C33: handleSubmit validates, buildPayload does not.  handleSubmit called on
\* a draft that is not ready to submit sends nothing and leaves the message
\* that names the unmet condition; what it does send is the payload of a
\* ready draft, with all its cards and, with the question of the user
\* enabled, a question that is not empty.  buildPayload called on its own
\* returns a payload for every draft.
C33_HandleSubmitValidates ==
  [][ /\ (callHandleSubmit /\ ~IsReadyToSubmit /\ ~isSubmitting) =>
           /\ sent' = NoPayload
           /\ error' \in ValidationMessages
           /\ error' = MsgEmptyQuestion =>
                (useCustomQuestion /\ Trim(customQuestion) = <<>>)
           /\ error' = MsgNoCategory => (~useCustomQuestion /\ category = Null)
           /\ error' = MsgNotEnough =>
                (Len(pickedCards) < MaxCards(spreadType))
           /\ UNCHANGED <<isSubmitting, calls, nextCall>>
      /\ (callHandleSubmit /\ sent' # NoPayload) =>
           /\ IsReadyToSubmit
           /\ PayloadValid(sent')
           /\ useCustomQuestion /\ spreadType = "three" =>
                sent'.question \notin {<<>>, NullText}
      /\ callBuildPayload => (sent' # NoPayload) ]_vars

\* handleSubmit was called on a three-card draft with no category and the
\* question off: the message about the category is left, nothing is sent.
C33_Witness ==
  /\ error = MsgNoCategory
  /\ sent = NoPayload
  /\ spreadType = "three"
  /\ category = Null
  /\ ~useCustomQuestion
  /\ Len(pickedCards) = 3
  /\ ~isSubmitting

\* C34: handleCategoryChange(code) called while the question of the user is
\* enabled changes nothing (the category and the text of the question are
\* as before); called while it is off, it sets the category to code and
\* empties the text of the question; the spread type, the switch and the
\* picked cards are untouched either way.
C34_CategoryChangeFrame ==
  [][ \A c \in THREE_SPREAD_CATEGORIES :
        callHandleCategoryChange(c) =>
          /\ useCustomQuestion =>
               UNCHANGED <<category, customQuestion, error>>
          /\ ~useCustomQuestion =>
               (category' = c /\ customQuestion' = <<>>)
          /\ UNCHANGED <<spreadType, useCustomQuestion, pickedCards,
                         isSubmitting>> ]_vars

\* handleCategoryChange was called with the question enabled: the category
\* is still null and the typed question is still there.
C34_Witness ==
  /\ called = "handleCategoryChange"
  /\ useCustomQuestion
  /\ category = Null
  /\ customQuestion # <<>>

\* C35: toggleUseCustomQuestion switching the question on sets the category
\* to null (the text is left alone); switching it off empties the text and
\* restores the default category if the category is null, keeping a
\* category that is set; so on followed by off leaves, for every draft, a
\* category that is not null and an empty text.
C35_ToggleOnOff ==
  /\ [][ callToggleUseCustomQuestion =>
           /\ useCustomQuestion' = ~useCustomQuestion
           /\ ~useCustomQuestion =>
                (category' = Null /\ customQuestion' = customQuestion)
           /\ useCustomQuestion =>
                /\ customQuestion' = <<>>
                /\ category' = (IF category = Null THEN "general" ELSE category)
                /\ category' # Null
           /\ UNCHANGED <<spreadType, pickedCards, isSubmitting>> ]_vars
  /\ [](/\ CategoryAfterToggle(FALSE, CategoryAfterToggle(TRUE, category))
             = "general"
        /\ QuestionAfterToggle(FALSE, QuestionAfterToggle(TRUE, customQuestion))
             = <<>>)

\* The question was switched off on a three-card draft: the default
\* category is in place and no text is stored.
C35_Witness ==
  /\ called = "toggleUseCustomQuestion"
  /\ spreadType = "three"
  /\ ~useCustomQuestion
  /\ category = "general"
  /\ customQuestion = <<>>

\* The fields of the draft that make the payload.
DraftFields ==
  <<spreadType, category, customQuestion, useCustomQuestion, pickedCards>>

C38_OneNormalizedShape ==
  result.returned =>
    /\ result.ok \in BOOLEAN
    /\ ( \/ response.net = "error"
         \/ (response.status # 204 /\ response.body = "unparsable")
         \/ ~HttpOk(response.status) )
         => (result.ok = FALSE /\ result.error \notin {Null, "undefined"})
    /\ result.ok = TRUE => result.error \in {Null, "undefined"}

\* The cursor has moved by one place of the circle, wrapping at its ends.
MovedOneStep ==
  \/ currentIndex' = currentIndex + 1
  \/ currentIndex' = currentIndex - 1
  \/ (currentIndex = TOTAL_CARDS - 1 /\ currentIndex' = 0)
  \/ (currentIndex = 0 /\ currentIndex' = TOTAL_CARDS - 1)

\* C31 (as stated): the cursor changes only while isSpinning is true, by
\* exactly one step; once the spin has stopped no tick moves it; the cursor
\* always resolves to a place in 0..TOTAL_CARDS-1, whichever way it went.
C31_AdvanceOnlyWhileSpinning ==
  [][ /\ currentIndex' \in 0..(TOTAL_CARDS - 1)
      /\ currentIndex' # currentIndex =>
           (MovedOneStep /\ (isSpinning \/ isSpinning'))
      /\ (called' = "spinStep" => isSpinning) ]_vars

\* C31 (amended): the cursor moves by exactly one step, within
\* 0..TOTAL_CARDS-1, either in a step of a spin (the swipe that starts it and
\* each timer tick while isSpinning is true) or on an arrow press, which is
\* accepted only while isSpinning is false; a tick fires only while the spin
\* is on, and once a pick or the last step has stopped the spin no tick is
\* pending.
C31_StepsBySpinOrArrows ==
  [][ /\ currentIndex' \in 0..(TOTAL_CARDS - 1)
      /\ currentIndex' # currentIndex =>
           /\ MovedOneStep
           /\ \/ called' \in {"startSpin", "spinStep"} /\ isSpinning'
              \/ /\ called' \in {"handlePrev", "handleNext"}
                 /\ ~isSpinning /\ ~isSpinning'
      /\ (called' = "spinStep" => isSpinning)
      /\ (~isSpinning' => spinTimer' = <<>>) ]_vars

\* A pick has stopped a spin to the left that had wrapped below 0.
C31_Witness ==
  /\ called = "stopSpin"
  /\ direction = -1
  /\ currentIndex > TOTAL_CARDS - MAX_SPIN_STEPS
  /\ pickedCount >= 1

\* C39: the window around the cursor has exactly 2*radius+1 indices, each in
\* 0..cardsCount-1; the one in the middle is the index the cursor resolves
\* to and the i-th (from 0) is the index cursor - radius + i resolves to;
\* computing it changes neither the cursor nor the cards picked or used.
C39_WindowAroundCursor ==
  [][ called' = "visibleIndices" =>
        /\ Len(visible') = 2 * Radius + 1
        /\ \A i \in 0..(2 * Radius) :
             /\ visible'[i + 1] \in 0..(cardsCount - 1)
             /\ visible'[i + 1] =
                  SafeIndex(currentIndex - Radius + i, cardsCount)
        /\ visible'[Radius + 1] = SafeIndex(currentIndex, cardsCount)
        /\ UNCHANGED <<currentIndex, usedIndices, pickedCards, pickedCount,
                       deck>> ]_vars

\* The window was computed at the start of the circle: its left end has
\* wrapped to the end of the catalogue.
C39_Witness ==
  /\ called = "visibleIndices"
  /\ currentIndex = 0
  /\ Len(deck) > Radius
  /\ visible[1] = Len(deck) - Radius
  /\ visible[Radius + 1] = 0

====
